---- MODULE Spec2Model ----
(***************************************************************************)
(* Smart Doc Checker: the contradiction-detection pipeline of nli.py       *)
(* (sentence segmentation, heuristic candidate pairs, adjudication) and    *)
(* the request handlers of app.py over the in-memory store of storage.py.  *)
(*                                                                         *)
(* A text is a sequence of one-character strings, so that the regular      *)
(* expressions and the substring tests of the code are computed character  *)
(* by character.                                                           *)
(***************************************************************************)
EXTENDS Integers, Sequences, FiniteSets, TLC

(***************************************************************************)
(* Characters and the str methods the code uses                            *)
(***************************************************************************)
Digit == {"0", "1", "2", "3", "4", "5", "6", "7", "8", "9"}

UpperSeq == <<"A", "B", "C", "D", "E", "F", "G", "H", "I", "J", "K", "L", "M",
              "N", "O", "P", "Q", "R", "S", "T", "U", "V", "W", "X", "Y", "Z">>

LowerSeq == <<"a", "b", "c", "d", "e", "f", "g", "h", "i", "j", "k", "l", "m",
              "n", "o", "p", "q", "r", "s", "t", "u", "v", "w", "x", "y", "z">>

Range(f) == {f[i] : i \in DOMAIN f}

\* \w of the re module: letters, digits and the underscore
WordChar == Range(UpperSeq) \cup Range(LowerSeq) \cup Digit \cup {"_"}

\* \s of the re module, and the characters str.strip / str.split treat as blank
Whitespace == {" ", "\n", "\t"}

\* [.!?] of the sentence splitter
Terminal == {".", "!", "?"}

\* str.lower on one character
LowerChar(c) ==
    IF \E i \in DOMAIN UpperSeq : UpperSeq[i] = c
    THEN LowerSeq[CHOOSE i \in DOMAIN UpperSeq : UpperSeq[i] = c]
    ELSE c

\* str.lower
lower(s) == [i \in 1..Len(s) |-> LowerChar(s[i])]

\* sub in s
Contains(s, sub) ==
    \E i \in 0..(Len(s) - Len(sub)) : SubSeq(s, i + 1, i + Len(sub)) = sub

\* str.strip
strip(s) ==
    LET ink == {i \in 1..Len(s) : s[i] \notin Whitespace}
    IN  IF ink = {} THEN <<>>
        ELSE SubSeq(s, CHOOSE i \in ink : \A k \in ink : i <= k,
                       CHOOSE i \in ink : \A k \in ink : i >= k)

\* set(s.split()): the maximal runs of non-blank characters
SplitSet(s) ==
    {SubSeq(s, p, q) : <<p, q>> \in
        {pq \in (1..Len(s)) \X (1..Len(s)) :
            /\ pq[1] <= pq[2]
            /\ \A k \in pq[1]..pq[2] : s[k] \notin Whitespace
            /\ (pq[1] = 1 \/ s[pq[1] - 1] \in Whitespace)
            /\ (pq[2] = Len(s) \/ s[pq[2] + 1] \in Whitespace)}}

(***************************************************************************)
(* nli.py                                                                  *)
(***************************************************************************)
\* re.split(r'(?<=[.!?])\s+', s): cut at every maximal run of whitespace that
\* directly follows a sentence-terminal mark; the leftmost cut first
RECURSIVE ReSplit(_)
ReSplit(s) ==
    LET cuts == {p \in 2..Len(s) : s[p] \in Whitespace /\ s[p - 1] \in Terminal}
    IN  IF cuts = {} THEN <<s>>
        ELSE LET p == CHOOSE c \in cuts : \A d \in cuts : c <= d
                 q == CHOOSE e \in p..Len(s) :
                        /\ \A k \in p..e : s[k] \in Whitespace
                        /\ (e = Len(s) \/ s[e + 1] \notin Whitespace)
             IN  <<SubSeq(s, 1, p - 1)>> \o ReSplit(SubSeq(s, q + 1, Len(s)))

extract_sentences(text) == ReSplit(strip(text))

\* re.findall(r'\b\d+%?\b', s), as a set.  A match starts at a digit that follows
\* a non-word character (or the start): \d+ takes the whole run of digits, since
\* \b cannot hold between two digits; then "%" is taken when a word character
\* follows it, and otherwise the run alone matches when no word character
\* follows the run.
NumTokens(s) ==
    LET isWord(k) == k >= 1 /\ k <= Len(s) /\ s[k] \in WordChar
        isDigit(k) == k >= 1 /\ k <= Len(s) /\ s[k] \in Digit
        runEnd(p) == CHOOSE e \in p..Len(s) :
                        /\ \A k \in p..e : isDigit(k)
                        /\ ~isDigit(e + 1)
        starts == {p \in 1..Len(s) : isDigit(p) /\ ~isWord(p - 1)}
        withPct(p) == runEnd(p) + 1 <= Len(s) /\ s[runEnd(p) + 1] = "%"
                      /\ isWord(runEnd(p) + 2)
    IN  {SubSeq(s, p, runEnd(p) + 1) : p \in {x \in starts : withPct(x)}}
        \cup {SubSeq(s, p, runEnd(p)) :
                p \in {x \in starts : ~withPct(x) /\ ~isWord(runEnd(x) + 1)}}

\* the condition of line 14
Retained(sa, sb) ==
    \/ \E tok \in NumTokens(sa) : Contains(sb, tok)
    \/ Cardinality(SplitSet(lower(sa)) \cap SplitSet(lower(sb))) > 3

\* pairs[:n]
Take(s, n) == SubSeq(s, 1, IF Len(s) < n THEN Len(s) ELSE n)

\* the cap of line 16
MaxPairs == 50

\* for sb in sentences_b: if ...: pairs.append((sa, sb))
\* the pairs one sa adds to the list, in the order of sentences_b
RECURSIVE InnerLoop(_, _)
InnerLoop(sa, sentences_b) ==
    IF sentences_b = <<>> THEN <<>>
    ELSE (IF Retained(sa, Head(sentences_b))
          THEN <<(<<sa, Head(sentences_b)>>)>>
          ELSE <<>>)
         \o InnerLoop(sa, Tail(sentences_b))

\* for sa in sentences_a: ...
\* the list after the loops: what each sa adds, in the order of sentences_a
RECURSIVE OuterLoop(_, _)
OuterLoop(sentences_a, sentences_b) ==
    IF sentences_a = <<>> THEN <<>>
    ELSE InnerLoop(Head(sentences_a), sentences_b)
         \o OuterLoop(Tail(sentences_a), sentences_b)

\* the filter with the slice of line 16 left out
heuristic_pairs_uncapped(sentences_a, sentences_b) ==
    OuterLoop(sentences_a, sentences_b)

heuristic_pairs(sentences_a, sentences_b) ==
    Take(OuterLoop(sentences_a, sentences_b), MaxPairs)

\* What one ask_model call does: it returns a text, or it raises (network, auth,
\* timeout, malformed reply).
Reply(text) == [raises |-> FALSE, content |-> text]

Failure == [raises |-> TRUE, content |-> <<>>]

\* 'contradiction' and '"contradiction"', the two needles of line 35
Needle == <<"c", "o", "n", "t", "r", "a", "d", "i", "c", "t", "i", "o", "n">>

QuotedNeedle == <<"\"">> \o Needle \o <<"\"">>

\* the test of line 35 with the needle compared case-sensitively
IsContradiction_cased(out) == Contains(out, QuotedNeedle) \/ Contains(out, Needle)

\* the test of line 35 on a reply
IsContradiction(out) == Contains(out, QuotedNeedle) \/ Contains(lower(out), Needle)

(***************************************************************************)
(* Bounds and inputs of the model                                          *)
(***************************************************************************)
\* adjudicate calls one analysis can come to make
MaxCalls == 2

\* the pipeline specification: requests that add to the store (a batch, a file,
\* a metered report)
PipeRequests == 4

\* the usage specification: the same
UsageRequests == 4

\* the candidate filter on its own: every list of up to MaxShort sentences, and
\* the lists of MaxLong sentences that run through the sentences in turn
MaxShort == 2

MaxLong == 16

Users == {"u1", "u2"}

FileNames == {"policy.txt"}

\* "Fee 7. Tax 8.": two sentences
TextFees == <<"F", "e", "e", " ", "7", ".", " ", "T", "a", "x", " ", "8", ".">>

\* "x7.": holds a 7 that is no numeric token of its own
TextRef == <<"x", "7", ".">>

\* the uploaded contents
Texts == {TextFees, TextRef}

\* Contradiction.
ProseContradiction ==
    <<"C", "o", "n", "t", "r", "a", "d", "i", "c", "t", "i", "o", "n", ".">>

\* {"type": "neutral"}
JsonNeutral ==
    <<"{", "\"", "t", "y", "p", "e", "\"", ":", " ", "\"",
      "n", "e", "u", "t", "r", "a", "l", "\"", "}">>

\* what ask_model can do on one call
Outcomes == {Reply(ProseContradiction), Reply(JsonNeutral), Failure}

(***************************************************************************)
(* The values of the pure functions on the inputs of the model, computed   *)
(* once: lines 30-31 and the test of line 35                               *)
(***************************************************************************)
\* the graph of a function, enumerated
Graph(f) == f @@ <<>>

CandidateTable ==
    Graph([p \in Texts \X Texts |->
             heuristic_pairs(extract_sentences(p[1]), extract_sentences(p[2]))])

VerdictTable ==
    Graph([r \in {o.content : o \in Outcomes} |-> IsContradiction(r)])

\* a_sents, b_sents = extract_sentences(a_text), extract_sentences(b_text)
\* pairs = heuristic_pairs(a_sents, b_sents)
Candidates(a_text, b_text) ==
    IF <<a_text, b_text>> \in DOMAIN CandidateTable
    THEN CandidateTable[<<a_text, b_text>>]
    ELSE heuristic_pairs(extract_sentences(a_text), extract_sentences(b_text))

\* '"contradiction"' in out or 'contradiction' in out.lower()
Verdict(out) ==
    IF out \in DOMAIN VerdictTable THEN VerdictTable[out] ELSE IsContradiction(out)

\* the dict of lines 36-41 with the two spans exchanged
Conflict_swapped(doc_a_name, sa, doc_b_name, sb, out) ==
    [doc_a |-> doc_a_name, span_a |-> sb, doc_b |-> doc_b_name, span_b |-> sa,
     type |-> "contradiction", explanation |-> out]

\* the dict of lines 36-41
Conflict(doc_a_name, sa, doc_b_name, sb, out) ==
    [doc_a |-> doc_a_name, span_a |-> sa, doc_b |-> doc_b_name, span_b |-> sb,
     type |-> "contradiction", explanation |-> out]

\* One adjudicate call as the environment sees it: the two sentences sent (with
\* the documents they come from) and what ask_model did.
Call(doc_a_name, sa, doc_b_name, sb, out) ==
    [doc_a |-> doc_a_name, span_a |-> sa, doc_b |-> doc_b_name, span_b |-> sb,
     reply |-> out]

\* for sa, sb in pairs: out = adjudicate(sa, sb) ...   replies[k] is what
\* ask_model does on the k-th call; an exception leaves the loop and the function.
\* acc: raised (an exception is propagating), conflicts (the local list), calls.
RECURSIVE AdjudicateLoop(_, _, _, _, _, _)
AdjudicateLoop(doc_a_name, doc_b_name, pairs, k, replies, acc) ==
    IF k > Len(pairs) THEN acc
    ELSE LET sa == pairs[k][1]
             sb == pairs[k][2]
             out == replies[k].content
             called == Append(acc.calls,
                              Call(doc_a_name, sa, doc_b_name, sb, replies[k]))
         IN  IF replies[k].raises
             THEN [acc EXCEPT !.raised = TRUE, !.calls = called]
             ELSE AdjudicateLoop(doc_a_name, doc_b_name, pairs, k + 1, replies,
                    [acc EXCEPT
                       !.calls = called,
                       !.conflicts =
                          IF Verdict(out)
                          THEN Append(@, Conflict(doc_a_name, sa, doc_b_name, sb, out))
                          ELSE @])

detect_conflicts(doc_a_name, a_text, doc_b_name, b_text, replies) ==
    LET pairs == Candidates(a_text, b_text)
    IN  AdjudicateLoop(doc_a_name, doc_b_name, pairs, 1, replies,
                       [raised |-> FALSE, conflicts |-> <<>>, calls |-> <<>>])

(***************************************************************************)
(* storage.py: state["totals"], state["batches"]; the files of UPLOAD_DIR  *)
(* and REPORT_DIR; the events the meter has accepted; the last request,    *)
(* its response, and the adjudication calls of the last analysis.          *)
(***************************************************************************)
VARIABLES totals, batches, disk, reports, events, request, response, run

\* one call of heuristic_pairs on its own: its arguments, and its result once it
\* has returned
VARIABLES filter_a, filter_b, filter_pairs, filter_done

store == <<totals, batches, disk, reports, events, request, response, run>>

filter == <<filter_a, filter_b, filter_pairs, filter_done>>

vars == <<store, filter>>

UPLOAD_DIR == "uploads"

\* {"docs_analyzed":0, "reports_generated":0}
ZeroTotals == [docs_analyzed |-> 0, reports_generated |-> 0]

\* init_user assigning instead of setdefault
init_user_reset(t, user_id) ==
    [u \in DOMAIN t \cup {user_id} |-> IF u = user_id THEN ZeroTotals ELSE t[u]]

\* state["totals"].setdefault(user_id, {...})
init_user(t, user_id) ==
    IF user_id \in DOMAIN t THEN t ELSE t @@ (user_id :> ZeroTotals)

\* state["batches"][bid] = {"user_id": user_id, "docs": [], "conflicts": []};
\* the fresh uuid is the position of the batch in the store
new_batch(b, user_id) ==
    Append(b, [user_id |-> user_id, docs |-> <<>>, conflicts |-> <<>>])

add_doc(b, batch_id, path) ==
    [b EXCEPT ![batch_id].docs = Append(@, path)]

record_conflicts(b, batch_id, conflicts) ==
    [b EXCEPT ![batch_id].conflicts = conflicts]

\* state["totals"][user_id][key] += n, for the two keys
incr_docs(t, user_id, n) ==
    [t EXCEPT ![user_id].docs_analyzed = @ + n]

incr_reports(t, user_id, n) ==
    [t EXCEPT ![user_id].reports_generated = @ + n]

\* os.path.join(UPLOAD_DIR, f"{uuid.uuid4()}_{file.filename}"); the fresh uuid is
\* the number of the file among the saved ones
UploadPath(uuid, filename) ==
    [dir |-> UPLOAD_DIR, uuid |-> uuid, filename |-> filename]

\* os.path.basename(p): the path without its directory
basename(path) == [uuid |-> path.uuid, filename |-> path.filename]

\* read_text(path), when the file can be opened
read_text(d, path) == d[path.uuid]

\* the CloudEvent the meter accepts
Event(event_type, subject, user_id, units) ==
    [type |-> event_type, subject |-> subject, user_id |-> user_id, units |-> units]

\* the response of a handler; conflicts is the body's list for /analyze
Response(status, detail, conflicts) ==
    [status |-> status, detail |-> detail, conflicts |-> conflicts]

Request(op, batch_id, user_id) ==
    [op |-> op, batch_id |-> batch_id, user_id |-> user_id]

\* no analysis ran in the last request
NoRun == [started |-> FALSE, raised |-> FALSE, docPairs |-> <<>>, calls |-> <<>>,
          conflicts |-> <<>>, appended |-> <<>>]

Init ==
    /\ totals = <<>>
    /\ batches = <<>>
    /\ disk = <<>>
    /\ reports = <<>>
    /\ events = <<>>
    /\ request = Request("none", 0, "u1")
    /\ response = Response(0, "", <<>>)
    /\ run = NoRun
    /\ filter_a = <<>>
    /\ filter_b = <<>>
    /\ filter_pairs = <<>>
    /\ filter_done = FALSE

(***************************************************************************)
(* app.py                                                                  *)
(***************************************************************************)
\* POST /init
init(user_id) ==
    /\ totals' = init_user(totals, user_id)
    /\ batches' = new_batch(batches, user_id)
    /\ request' = Request("init", Len(batches) + 1, user_id)
    /\ response' = Response(200, "ok", <<>>)
    /\ run' = NoRun
    /\ UNCHANGED <<disk, reports, events>>

\* POST /upload.  readable: read_text returns; accepted: the meter takes the event
\* (ingest_event returns True instead of raising).
upload(filename, content, batch_id, user_id, readable, accepted) ==
    /\ request' = Request("upload", batch_id, user_id)
    /\ run' = NoRun
    /\ disk' = Append(disk, content)
    /\ UNCHANGED reports
    /\ LET path == UploadPath(Len(disk) + 1, filename)
       IN  IF batch_id \notin DOMAIN batches
           THEN \* KeyError in add_doc
                /\ response' = Response(500, "KeyError", <<>>)
                /\ UNCHANGED <<totals, batches, events>>
           ELSE /\ batches' = add_doc(batches, batch_id, path)
                /\ IF ~readable \/ ~accepted
                   THEN \* read_text or ingest_event raises; the except clause
                        /\ response' = Response(200,
                                          IF ~readable THEN "parse_failed: read"
                                          ELSE "parse_failed: ingest", <<>>)
                        /\ UNCHANGED <<totals, events>>
                   ELSE /\ events' = Append(events,
                                       Event("doc.analyzed", path, user_id, 1))
                        /\ IF user_id \notin DOMAIN totals
                           THEN \* KeyError in incr, caught by the except clause
                                /\ response' = Response(200, "parse_failed: KeyError",
                                                        <<>>)
                                /\ UNCHANGED totals
                           ELSE /\ totals' = incr_docs(totals, user_id, 1)
                                /\ response' = Response(200, "ok", <<>>)

\* the adjudicate calls an analysis of these texts can come to make: document
\* pair (i, j), counted from 0 as range() does, and the k-th candidate pair
CallSites(texts) ==
    UNION {{<<i, j, k>> :
               k \in 1..Len(Candidates(texts[i + 1].text, texts[j + 1].text))} :
           <<i, j>> \in {p \in (0..(Len(texts) - 1)) \X (0..(Len(texts) - 1)) :
                            p[1] < p[2]}}

\* extend putting the new records in front
extend_front(conflicts, more) == more \o conflicts

\* conflicts.extend(more)
extend(conflicts, more) == conflicts \o more

\* the precondition tested against one document instead of two
TooFewDocs_one(docs) == Len(docs) < 1

\* len(docs) < 2
TooFewDocs(docs) == Len(docs) < 2

\* for i in range(len(texts)): for j in range(i + 1, len(texts)):
\*     conflicts.extend(detect_conflicts(a_name, a_text, b_name, b_text))
\* oracle[<<i, j, k>>] is what ask_model does at that call; an exception raised in
\* detect_conflicts leaves both loops.  acc.appended keeps every record appended
\* at line 36 of nli.py, also the ones an exception then discards.
RECURSIVE PairLoop(_, _, _, _, _)
PairLoop(texts, i, j, oracle, acc) ==
    IF i >= Len(texts) THEN acc
    ELSE IF j >= Len(texts) THEN PairLoop(texts, i + 1, i + 2, oracle, acc)
    ELSE LET a == texts[i + 1]
             b == texts[j + 1]
             replies == [k \in {n \in 1..MaxPairs : <<i, j, n>> \in DOMAIN oracle}
                            |-> oracle[<<i, j, k>>]]
             r == detect_conflicts(a.name, a.text, b.name, b.text, replies)
             seen == [acc EXCEPT !.docPairs = Append(@, <<i, j>>),
                                 !.calls = @ \o r.calls,
                                 !.appended = @ \o r.conflicts]
         IN  IF r.raised
             THEN [seen EXCEPT !.raised = TRUE]
             ELSE PairLoop(texts, i, j + 1, oracle,
                           [seen EXCEPT !.conflicts = extend(@, r.conflicts)])

\* POST /analyze.  readable: every read_text returns; outcomes: what ask_model
\* can do on a call.
analyze(batch_id, user_id, readable, outcomes) ==
    /\ request' = Request("analyze", batch_id, user_id)
    /\ UNCHANGED <<totals, disk, reports, events>>
    /\ IF batch_id \notin DOMAIN batches
       THEN \* KeyError in get_batch
            /\ response' = Response(500, "KeyError", <<>>)
            /\ run' = NoRun
            /\ UNCHANGED batches
       ELSE LET docs == batches[batch_id].docs
                texts == [n \in 1..Len(docs) |->
                            [name |-> basename(docs[n]),
                             text |-> read_text(disk, docs[n])]]
            IN  IF TooFewDocs(docs)
                THEN /\ response' = Response(400, "Upload at least 2 documents", <<>>)
                     /\ run' = NoRun
                     /\ UNCHANGED batches
                ELSE IF ~readable
                THEN /\ response' = Response(400, "Failed to read", <<>>)
                     /\ run' = NoRun
                     /\ UNCHANGED batches
                ELSE /\ Cardinality(CallSites(texts)) <= MaxCalls
                     /\ \E oracle \in [CallSites(texts) -> outcomes] :
                          LET r == PairLoop(texts, 0, 1, oracle,
                                            [NoRun EXCEPT !.started = TRUE])
                          IN  /\ run' = r
                              /\ IF r.raised
                                 THEN \* the exception of ask_model leaves the handler
                                      /\ response' = Response(500, "adjudication", <<>>)
                                      /\ UNCHANGED batches
                                 ELSE /\ batches' = record_conflicts(batches, batch_id,
                                                                     r.conflicts)
                                      /\ IF user_id \notin DOMAIN totals
                                         THEN \* KeyError in get_totals
                                              response' = Response(500, "KeyError", <<>>)
                                         ELSE response' = Response(200, "ok", r.conflicts)

\* the lines report() draws for conflicts[:300]: the k-th record's documents and
\* spans, then its explanation
RenderLimit == 300

Rendered(conflicts) ==
    [k \in 1..Len(Take(conflicts, RenderLimit)) |->
        [k |-> k, doc_a |-> conflicts[k].doc_a, span_a |-> conflicts[k].span_a,
         doc_b |-> conflicts[k].doc_b, span_b |-> conflicts[k].span_b,
         explanation |-> conflicts[k].explanation]]

\* POST /report.  accepted: the meter takes the event.
report(batch_id, user_id, accepted) ==
    /\ request' = Request("report", batch_id, user_id)
    /\ run' = NoRun
    /\ UNCHANGED <<batches, disk>>
    /\ IF batch_id \notin DOMAIN batches
       THEN \* KeyError in get_batch
            /\ response' = Response(500, "KeyError", <<>>)
            /\ UNCHANGED <<totals, reports, events>>
       ELSE LET conflicts == batches[batch_id].conflicts
            IN  /\ reports' = [n \in DOMAIN reports \cup {batch_id} |->
                                 IF n = batch_id THEN Rendered(conflicts) ELSE reports[n]]
                /\ IF ~accepted
                   THEN \* ingest_event raises and nothing catches it
                        /\ response' = Response(500, "ingest", <<>>)
                        /\ UNCHANGED <<totals, events>>
                   ELSE /\ events' = Append(events,
                                       Event("report.generated", batch_id, user_id, 1))
                        /\ IF user_id \notin DOMAIN totals
                           THEN \* KeyError in incr
                                /\ response' = Response(500, "KeyError", <<>>)
                                /\ UNCHANGED totals
                           ELSE /\ totals' = incr_reports(totals, user_id, 1)
                                /\ response' = Response(200, "ok", <<>>)

\* calls of /report so far that reached the meter
ReportEvents == {n \in 1..Len(events) : events[n].type = "report.generated"}

\* the batch_id of a request: a batch of the store, or one that is not there
BatchIds == 1..(Len(batches) + 1)

\* the requests so far that added a batch, a file or a metered report
Stored == Len(batches) + Len(disk) + Cardinality(ReportEvents)

(***************************************************************************)
(* The pipeline: the batches and documents of user u1, every outcome of    *)
(* every adjudicate call; u2 never calls /init.                            *)
(***************************************************************************)
PipeInit ==
    /\ Stored < PipeRequests
    /\ init("u1")

PipeUpload ==
    /\ Stored < PipeRequests
    /\ \E filename \in FileNames, content \in Texts, batch_id \in BatchIds :
         upload(filename, content, batch_id, "u1", TRUE, TRUE)

PipeAnalyze ==
    \E batch_id \in BatchIds, user_id \in Users, readable \in BOOLEAN :
        analyze(batch_id, user_id, readable, Outcomes)

PipeReport ==
    /\ Stored < PipeRequests
    /\ \E batch_id \in BatchIds : report(batch_id, "u1", TRUE)

Next ==
    \/ PipeInit /\ UNCHANGED filter
    \/ PipeUpload /\ UNCHANGED filter
    \/ PipeAnalyze /\ UNCHANGED filter
    \/ PipeReport /\ UNCHANGED filter

Spec == Init /\ [][Next]_vars

(***************************************************************************)
(* Usage and billing: two users, every outcome of reading and metering;    *)
(* the documents hold one candidate pair and the adjudicator answers.      *)
(***************************************************************************)
UsageInit ==
    /\ Stored < UsageRequests
    /\ \E user_id \in Users : init(user_id)

UsageUpload ==
    /\ Stored < UsageRequests
    /\ \E filename \in FileNames, batch_id \in BatchIds, user_id \in Users,
          readable \in BOOLEAN, accepted \in BOOLEAN :
         upload(filename, TextFees, batch_id, user_id, readable, accepted)

UsageAnalyze ==
    \E batch_id \in BatchIds, user_id \in Users :
        analyze(batch_id, user_id, TRUE, {Reply(ProseContradiction)})

UsageReport ==
    /\ Stored < UsageRequests
    /\ \E batch_id \in BatchIds, user_id \in Users, accepted \in BOOLEAN :
         report(batch_id, user_id, accepted)

NextUsage ==
    \/ UsageInit /\ UNCHANGED filter
    \/ UsageUpload /\ UNCHANGED filter
    \/ UsageAnalyze /\ UNCHANGED filter
    \/ UsageReport /\ UNCHANGED filter

SpecUsage == Init /\ [][NextUsage]_vars

(***************************************************************************)
(* heuristic_pairs on its own, on lists long enough to pass the cap        *)
(***************************************************************************)
\* "a b c d", "A B c d x" (four words shared once lowered), "a b c z" (three)
SentWords == <<"a", " ", "b", " ", "c", " ", "d">>

SentUpper == <<"A", " ", "B", " ", "c", " ", "d", " ", "x">>

SentThree == <<"a", " ", "b", " ", "c", " ", "z">>

\* the sentences of the lists: "Fee 7.", "Tax 8.", "x7." and the three above
SentencePool ==
    <<SubSeq(TextFees, 1, 6), SentUpper, TextRef, SentWords, SubSeq(TextFees, 8, 13),
      SentThree>>

\* the list of n sentences that starts at the r-th of the pool and takes them in turn
Cycle(r, n) == [k \in 1..n |-> SentencePool[((r + k - 2) % Len(SentencePool)) + 1]]

SentenceLists ==
    UNION {[1..n -> Range(SentencePool)] : n \in 0..MaxShort}
    \cup {Cycle(r, MaxLong) : r \in 1..Len(SentencePool)}

InitPairs ==
    /\ filter_a \in SentenceLists
    /\ filter_b \in SentenceLists
    /\ filter_pairs = <<>>
    /\ filter_done = FALSE
    /\ totals = <<>>
    /\ batches = <<>>
    /\ disk = <<>>
    /\ reports = <<>>
    /\ events = <<>>
    /\ request = Request("none", 0, "u1")
    /\ response = Response(0, "", <<>>)
    /\ run = NoRun

CallFilter ==
    /\ ~filter_done
    /\ filter_pairs' = heuristic_pairs(filter_a, filter_b)
    /\ filter_done' = TRUE
    /\ UNCHANGED <<filter_a, filter_b, store>>

NextPairs == CallFilter

SpecPairs == InitPairs /\ [][NextPairs]_vars

(***************************************************************************)
(* Properties                                                              *)
(***************************************************************************)
\* the last request was an /analyze that got past the precondition and the loading
\* of the texts
Analysed == request.op = "analyze" /\ run.started

\* the documents of the batch the last request names
RequestDocs == batches[request.batch_id].docs

\* some adjudicate call of the last analysis raised
SomeCallFailed == \E k \in DOMAIN run.calls : run.calls[k].reply.raises

\* the document pairs (i, j), i < j < n, and the k-th of them in lexicographic order
DocPairSet(n) == {p \in (0..(n - 1)) \X (0..(n - 1)) : p[1] < p[2]}

LexBefore(p, q) == p[1] < q[1] \/ (p[1] = q[1] /\ p[2] < q[2])

DocPairsInOrder(n) ==
    [k \in 1..Cardinality(DocPairSet(n)) |->
        CHOOSE p \in DocPairSet(n) :
            Cardinality({q \in DocPairSet(n) : LexBefore(q, p)}) = k - 1]

\* two characters that are the same letter in either case, or the same character
SameIgnoringCase(c, d) ==
    c = d \/ \E n \in DOMAIN UpperSeq : {c, d} = {UpperSeq[n], LowerSeq[n]}

\* the text holds "contradiction" somewhere, compared case-insensitively
SaysContradiction(text) ==
    \E i \in 0..(Len(text) - Len(Needle)) :
        \A k \in DOMAIN Needle : SameIgnoringCase(text[i + k], Needle[k])

\* a call that returned a reply naming a contradiction
IsHit(call) == ~call.reply.raises /\ SaysContradiction(call.reply.content)

\* xs can be had from ys by deleting elements of ys
RECURSIVE IsSubsequence(_, _)
IsSubsequence(xs, ys) ==
    IF xs = <<>> THEN TRUE
    ELSE IF ys = <<>> THEN FALSE
    ELSE IF Head(xs) = Head(ys) THEN IsSubsequence(Tail(xs), Tail(ys))
    ELSE IsSubsequence(xs, Tail(ys))

RECURSIVE Flatten(_)
Flatten(seqs) == IF seqs = <<>> THEN <<>> ELSE Head(seqs) \o Flatten(Tail(seqs))

\* what a record says of the call it comes from, and the same of a call
RecordKey(r) ==
    [doc_a |-> r.doc_a, span_a |-> r.span_a, doc_b |-> r.doc_b, span_b |-> r.span_b,
     text |-> r.explanation]

CallKey(c) ==
    [doc_a |-> c.doc_a, span_a |-> c.span_a, doc_b |-> c.doc_b, span_b |-> c.span_b,
     text |-> c.reply.content]

\* the sentence pairs sent to the adjudicator when every call returns: document
\* pairs in lexicographic order and, within one, the candidate pairs in the
\* order of the filter
PlannedCalls(docs) ==
    Flatten([n \in 1..Cardinality(DocPairSet(Len(docs))) |->
        LET p == DocPairsInOrder(Len(docs))[n]
            a == docs[p[1] + 1]
            b == docs[p[2] + 1]
            cands == heuristic_pairs(extract_sentences(read_text(disk, a)),
                                     extract_sentences(read_text(disk, b)))
        IN  [m \in 1..Len(cands) |->
                [doc_a |-> basename(a), span_a |-> cands[m][1],
                 doc_b |-> basename(b), span_b |-> cands[m][2]]]])

\* C1: when the adjudication call fails for one candidate pair, the analysis
\* still completes: it answers with success and returns every record found for
\* the other pairs.
C1_FailedCallDoesNotFailAnalysis ==
    (Analysed /\ SomeCallFailed /\ request.user_id \in DOMAIN totals)
        => /\ response.status = 200
           /\ \A k \in DOMAIN run.appended :
                \E m \in DOMAIN response.conflicts :
                    response.conflicts[m] = run.appended[k]

\* C2: heuristic_pairs returns exactly the first min(50, k) of the k retained
\* pairs taken in nested order (every sb for sa[0], then every sb for sa[1], ...):
\* never more than 50 pairs, and the n-th pair returned is the n-th retained one.
C2_FirstFiftyInNestedOrder ==
    filter_done =>
        LET kept == {p \in (1..Len(filter_a)) \X (1..Len(filter_b)) :
                        Retained(filter_a[p[1]], filter_b[p[2]])}
            rank(p) == Cardinality({q \in kept : LexBefore(q, p)}) + 1
        IN  /\ Len(filter_pairs) <= 50
            /\ Len(filter_pairs) =
                 (IF Cardinality(kept) < 50 THEN Cardinality(kept) ELSE 50)
            /\ \A p \in kept :
                 rank(p) <= Len(filter_pairs)
                    => filter_pairs[rank(p)] = <<filter_a[p[1]], filter_b[p[2]]>>

\* C2 witness: more than 50 pairs are retained and exactly 50 are returned.
C2_Witness ==
    /\ filter_done
    /\ Len(filter_pairs) = 50
    /\ Cardinality({p \in (1..Len(filter_a)) \X (1..Len(filter_b)) :
                        Retained(filter_a[p[1]], filter_b[p[2]])}) > 50

\* C3: an /analyze of a batch holding fewer than 2 documents is answered with an
\* error, issues no adjudication call, and leaves the stored batches (their
\* conflicts with them) and the usage totals as they were.
C3_TooFewDocumentsRejected ==
    [][(/\ request'.op = "analyze"
        /\ request'.batch_id \in DOMAIN batches
        /\ Len(batches[request'.batch_id].docs) < 2)
          => /\ response'.status = 400
             /\ ~run'.started
             /\ run'.calls = <<>>
             /\ batches' = batches
             /\ totals' = totals]_vars

\* C3 witness: an /analyze of a batch of one document was rejected.
C3_Witness ==
    /\ request.op = "analyze"
    /\ request.batch_id \in DOMAIN batches
    /\ Len(RequestDocs) = 1
    /\ response.status = 400
    /\ ~run.started

\* C4: an analysis of n >= 2 documents evaluates every document pair (i, j) with
\* i < j exactly once, no other pair, in lexicographic order.
C4_EveryDocPairInOrder ==
    Analysed => run.docPairs = DocPairsInOrder(Len(RequestDocs))

\* the record comes from a candidate pair of two documents of the list, the first
\* before the second
RecordOf(r, docs) ==
    \E i \in DOMAIN docs, j \in DOMAIN docs :
        /\ i < j
        /\ r.doc_a = basename(docs[i])
        /\ r.doc_b = basename(docs[j])
        /\ LET a_sents == extract_sentences(read_text(disk, docs[i]))
               b_sents == extract_sentences(read_text(disk, docs[j]))
           IN  /\ r.span_a \in Range(a_sents)
               /\ r.span_b \in Range(b_sents)
               /\ <<r.span_a, r.span_b>> \in Range(heuristic_pairs(a_sents, b_sents))

\* C5: every record an analysis returns or stores has span_a among the sentences
\* of the document named doc_a and span_b among those of the document named
\* doc_b, the two spans being a candidate pair of the filter for these two
\* documents, and doc_a coming before doc_b in the batch.
C5_SpansComeFromTheDocuments ==
    /\ \A b \in DOMAIN batches : \A k \in DOMAIN batches[b].conflicts :
          RecordOf(batches[b].conflicts[k], batches[b].docs)
    /\ (request.op = "analyze" /\ response.status = 200)
          => \A k \in DOMAIN response.conflicts :
                RecordOf(response.conflicts[k], RequestDocs)

\* C5 witness: an analysis returned a record whose spans are different sentences
\* of two documents.
C5_Witness ==
    /\ request.op = "analyze"
    /\ response.status = 200
    /\ \E k \in DOMAIN response.conflicts :
          response.conflicts[k].span_a # response.conflicts[k].span_b

\* C6: the records appended during an analysis are, in order, one for each call
\* that returned a reply holding "contradiction" (case-insensitively) and none
\* for any other call; each has type "contradiction" and the reply, unchanged, as
\* its explanation.
C6_AppendedIffContradiction ==
    run.started =>
        LET hits == SelectSeq(run.calls, IsHit)
        IN  /\ Len(run.appended) = Len(hits)
            /\ \A k \in DOMAIN run.appended :
                 /\ run.appended[k].type = "contradiction"
                 /\ run.appended[k].explanation = hits[k].reply.content
                 /\ RecordKey(run.appended[k]) = CallKey(hits[k])

\* C6 witness: one call answered "Contradiction." and got its record, another
\* answered neutral and got none.
C6_Witness ==
    /\ run.started
    /\ Len(run.appended) = 1
    /\ \E k \in DOMAIN run.calls : run.calls[k].reply = Reply(ProseContradiction)
    /\ \E k \in DOMAIN run.calls : run.calls[k].reply = Reply(JsonNeutral)

\* C7: the list an analysis returns keeps the order of evaluation: the calls went
\* out in document-pair order and then candidate-pair order, the records are a
\* subsequence of these calls, and there is one record for each call that found
\* a contradiction, also when the same sentences recur in several comparisons.
C7_OutputKeepsEvaluationOrder ==
    (request.op = "analyze" /\ response.status = 200)
        => /\ [k \in DOMAIN run.calls |->
                 [doc_a |-> run.calls[k].doc_a, span_a |-> run.calls[k].span_a,
                  doc_b |-> run.calls[k].doc_b, span_b |-> run.calls[k].span_b]]
                = PlannedCalls(RequestDocs)
           /\ IsSubsequence([k \in DOMAIN response.conflicts |->
                                RecordKey(response.conflicts[k])],
                            [k \in DOMAIN run.calls |-> CallKey(run.calls[k])])
           /\ Len(response.conflicts) = Len(SelectSeq(run.calls, IsHit))

\* C7 witness: two records of one analysis hold the same two sentences and come
\* from two different document pairs.
C7_Witness ==
    /\ request.op = "analyze"
    /\ response.status = 200
    /\ \E k \in DOMAIN response.conflicts, m \in DOMAIN response.conflicts :
          /\ k < m
          /\ response.conflicts[k].span_a = response.conflicts[m].span_a
          /\ response.conflicts[k].span_b = response.conflicts[m].span_b
          /\ response.conflicts[k].doc_b # response.conflicts[m].doc_b

\* an /upload step, the user's docs_analyzed going up by one in it, and the meter
\* taking a doc.analyzed event of one unit in it
UploadStep == request'.op = "upload" /\ Len(disk') = Len(disk) + 1

DocsIncremented ==
    /\ request'.user_id \in DOMAIN totals
    /\ totals' = [totals EXCEPT ![request'.user_id].docs_analyzed = @ + 1]

DocMetered ==
    /\ Len(events') = Len(events) + 1
    /\ events'[Len(events')].type = "doc.analyzed"
    /\ events'[Len(events')].units = 1

\* C8: an upload is metered and counted only after its text was read; when the
\* read or the metering fails nothing is metered and no total moves; and in every
\* outcome the event is metered if and only if docs_analyzed went up by one.
C8_MeteredIffCounted ==
    [][UploadStep =>
         /\ (DocMetered <=> DocsIncremented)
         /\ (~DocMetered => events' = events)
         /\ (~DocsIncremented => totals' = totals)
         /\ (response'.detail # "ok" => ~DocMetered)]_vars

\* C9: no step lowers a total of a user or removes a user's totals; /init leaves
\* the totals of every initialised user as they are while adding one empty batch;
\* and a step changes the totals of no user but the one its request names.
C9_TotalsNeverDecrease ==
    [][/\ \A u \in DOMAIN totals :
            /\ u \in DOMAIN totals'
            /\ totals'[u].docs_analyzed >= totals[u].docs_analyzed
            /\ totals'[u].reports_generated >= totals[u].reports_generated
            /\ (u # request'.user_id => totals'[u] = totals[u])
            /\ (request'.op = "init" => totals'[u] = totals[u])
       /\ \A u \in DOMAIN totals' : u \in DOMAIN totals \/ u = request'.user_id
       /\ (request'.op = "init" /\ Len(batches') > Len(batches))
            => /\ Len(batches') = Len(batches) + 1
               /\ batches'[Len(batches')].docs = <<>>
               /\ batches'[Len(batches')].conflicts = <<>>
               /\ SubSeq(batches', 1, Len(batches)) = batches]_vars

\* C9 witness: a user with documents counted called /init again and kept them,
\* while another user is initialised too.
C9_Witness ==
    /\ request.op = "init"
    /\ Len(batches) >= 2
    /\ request.user_id \in DOMAIN totals
    /\ totals[request.user_id].docs_analyzed > 0
    /\ DOMAIN totals = Users

\* C10: the conflicts stored for a batch change only in a successful /analyze of
\* it, which stores exactly the list it returns; so a report renders the list of
\* the most recent successful analysis (the empty list if there was none).
C10_StoredIsLastSuccessfulAnalysis ==
    [][\A b \in DOMAIN batches :
          batches'[b].conflicts # batches[b].conflicts
             => /\ request'.op = "analyze"
                /\ request'.batch_id = b
                /\ response'.status = 200
                /\ response'.conflicts = batches'[b].conflicts]_vars

====
